---- MODULE Spec2Model ----
(***************************************************************************)
(* Model of the MarkAccent endpoint of API-tools (src/api/accent_marker.py) *)
(* together with the furigana fetch it calls (src/api/furigana_marker.py).  *)
(*                                                                          *)
(* Strings are sequences of Unicode code points, so that len(), slicing,    *)
(* str.startswith, jaconv.kata2hira and is_kana_or_kanji are computed on    *)
(* characters as the Python code computes them.  A dict is a record; a key  *)
(* that may be absent ("furigana", "subword") is a field that may be absent *)
(* from the record's DOMAIN.  An Optional value is a sequence of length 0   *)
(* (None) or 1.                                                             *)
(*                                                                          *)
(* The call mark_furigana(Request(text=query_text), client) at              *)
(* accent_marker.py:255 is modelled as running the body of mark_furigana on *)
(* the request; the second positional argument plays no part in the body.   *)
(***************************************************************************)
EXTENDS Integers, Sequences, FiniteSets, TLC

(***************************************************************************)
(* Bounds of the model                                                      *)
(***************************************************************************)
\* longest list of words the furigana source answers with
MaxWords == 2
\* longest list of mora spans the accent source answers with
MaxMojis == 3

(***************************************************************************)
(* Characters used in the inputs (code points)                              *)
(*   12363 U+304B hiragana KA    12459 U+30AB katakana KA                   *)
(*   12365 U+304D hiragana KI    12461 U+30AD katakana KI                   *)
(*   12540 U+30FC prolonged sound mark (kana block, but an exception symbol)*)
(*   12290 U+3002 ideographic full stop                                     *)
(*   20170 U+4ECA kanji                                                     *)
(***************************************************************************)
None == <<>>

Some(v) == <<v>>

\* sequence helpers -------------------------------------------------------
RECURSIVE SeqsUpTo(_, _)
SeqsUpTo(S, n) ==
    IF n = 0 THEN {<<>>}
    ELSE LET shorter == SeqsUpTo(S, n - 1)
         IN  shorter \cup {Append(s, e) : s \in {t \in shorter : Len(t) = n - 1}, e \in S}

\* Python slice s[lo : hi] with 0 <= lo (0-based, hi exclusive, clipped)
Slice(s, lo, hi) ==
    LET h == IF hi > Len(s) THEN Len(s) ELSE hi
    IN  IF lo >= h THEN <<>> ELSE SubSeq(s, lo + 1, h)

\* str.startswith
StartsWith(s, prefix) ==
    /\ Len(prefix) <= Len(s)
    /\ SubSeq(s, 1, Len(prefix)) = prefix

(***************************************************************************)
(* accent_marker.py: character helpers                                      *)
(***************************************************************************)
exception_symbols == {12448, 12539, 12540, 12541, 12542, 12543}

kana == 12352 .. 12543

kanji == 19968 .. 40959

is_kana_or_kanji(char) ==
    IF char \in exception_symbols THEN FALSE
    ELSE IF char \in kana \/ char \in kanji THEN TRUE
    ELSE FALSE

\* jaconv.kata2hira on one character: full-width katakana U+30A1..U+30F6 and
\* the iteration marks U+30FD, U+30FE map to the hiragana 0x60 below; every
\* other character (the prolonged sound mark included) is kept.
kata2hira_char(c) ==
    IF c \in 12449 .. 12534 \/ c \in {12541, 12542} THEN c - 96 ELSE c

kata2hira(s) == [k \in 1 .. Len(s) |-> kata2hira_char(s[k])]

(***************************************************************************)
(* furigana_marker.py: what the furigana source (Yahoo) can answer          *)
(***************************************************************************)
\* the "word" dicts of a JSON-RPC answer; "furigana" and "subword" are optional
YahooWords ==
    { [surface |-> <<20170>>, furigana |-> <<12363>>],
      [surface |-> <<12459>>],
      [surface |-> <<12365>>],
      [surface |-> <<12290>>],
      [surface |-> <<20170>>, furigana |-> <<12363, 12540>>],
      [surface |-> <<20170, 12365>>, furigana |-> <<12363, 12365>>],
      [surface |-> <<20170, 12365>>, furigana |-> <<12363, 12365>>,
       subword |-> << [surface |-> <<20170>>, furigana |-> <<12363>>],
                      [surface |-> <<12365>>, furigana |-> <<12365>>] >>],
      [surface |-> <<20170, 12365>>, furigana |-> <<12363, 12365>>,
       subword |-> <<>>],
      [surface |-> <<20170, 12540>>, furigana |-> <<12363, 12540>>,
       subword |-> << [surface |-> <<20170>>, furigana |-> <<12363>>],
                      [surface |-> <<12540>>, furigana |-> <<12540>>] >>] }

\* the decoded JSON bodies: not a dict, a dict without "result", a dict whose
\* "result" has no "word", each with or without an "error" member, and the
\* well-formed answers
YahooBodiesUpTo(n) ==
    { [type |-> "list"] }
    \cup { [type |-> "dict"],
           [type |-> "dict", error |-> [code |-> -32600, message |-> "Invalid Request"]],
           [type |-> "dict", result |-> [type |-> "dict"]],
           [type |-> "dict", result |-> [type |-> "dict"],
            error |-> [code |-> -32600, message |-> "Invalid Request"]],
           [type |-> "dict", result |-> [type |-> "dict", word |-> <<>>],
            error |-> [code |-> -32600, message |-> "Invalid Request"]] }
    \cup { [type |-> "dict", result |-> [type |-> "dict", word |-> ws]] :
             ws \in SeqsUpTo(YahooWords, n) }

YahooBodies == YahooBodiesUpTo(MaxWords)

\* the outcomes of session.post(...) and resp.json() (furigana_marker.py:102-139)
YahooFailures ==
    { [kind |-> "status", status |-> st] : st \in {403, 500} }
    \cup { [kind |-> k] : k \in {"ContentTypeError", "TimeoutError",
                                 "ClientConnectionError", "Exception"} }

YahooRepliesUpTo(n) ==
    YahooFailures \cup { [kind |-> "json", body |-> b] : b \in YahooBodiesUpTo(n) }

YahooReplies == YahooRepliesUpTo(MaxWords)

\* Response(...).model_dump() of furigana_marker.py
FuriganaResponse(status, result, error) ==
    [status |-> status, result |-> result, error |-> error]

FuriganaErrorInfo(code, message) == Some([code |-> code, message |-> message])

\* SingleWordResultObject(...) after model_dump(): a dict
DumpSingleWord(furigana, surface) ==
    [type |-> "dict", furigana |-> furigana, surface |-> surface]

\* furigana_marker.py:164-182, one iteration of "for word in words"
ParseWord(word) ==
    IF "subword" \in DOMAIN word
    THEN [surface |-> word.surface,
          furigana |-> word.furigana,
          subword |-> [k \in 1 .. Len(word.subword) |->
                         DumpSingleWord(word.subword[k].furigana,
                                        word.subword[k].surface)]]
    ELSE [surface |-> word.surface,
          furigana |-> IF "furigana" \in DOMAIN word THEN word.furigana
                       ELSE word.surface]

\* furigana_marker.py:141
UnexpectedStructure(result) ==
    \/ result.type # "dict"
    \/ "result" \notin DOMAIN result
    \/ "word" \notin DOMAIN result.result

\* furigana_marker.py:81-187: the response mark_furigana returns for a reply
mark_furigana(reply) ==
    CASE reply.kind = "status" ->
           FuriganaResponse(reply.status, <<>>,
                            FuriganaErrorInfo(reply.status, "HTTP error"))
      [] reply.kind = "ContentTypeError" ->
           FuriganaResponse(502, <<>>, FuriganaErrorInfo(502, "Invalid JSON response"))
      [] reply.kind = "TimeoutError" ->
           FuriganaResponse(504, <<>>,
                            FuriganaErrorInfo(504, "Request to Yahoo API timed out"))
      [] reply.kind = "ClientConnectionError" ->
           FuriganaResponse(503, <<>>,
                            FuriganaErrorInfo(503, "Failed to connect to Yahoo API"))
      [] reply.kind = "Exception" ->
           FuriganaResponse(500, <<>>, FuriganaErrorInfo(500, "Unexpected error"))
      [] reply.kind = "json" ->
           LET result == reply.body
           IN  IF UnexpectedStructure(result)
               THEN FuriganaResponse(502, <<>>,
                      FuriganaErrorInfo(502, "Unexpected response structure from Yahoo API"))
               ELSE IF "error" \in DOMAIN result
               THEN FuriganaResponse(400, <<>>,
                      FuriganaErrorInfo(result.error.code, result.error.message))
               ELSE LET words == result.result.word
                    IN  FuriganaResponse(200,
                          [k \in 1 .. Len(words) |-> ParseWord(words[k])], None)

(***************************************************************************)
(* accent_marker.py: what the accent source (OJAD) can answer               *)
(***************************************************************************)
\* the <span> elements of the phrasing_text rows: text and first CSS class
OjadMojis ==
    { [text |-> <<12363>>, class |-> "mola"],
      [text |-> <<12459>>, class |-> "accent_top"],
      [text |-> <<12365>>, class |-> "accent_plain"],
      [text |-> <<12363, 12461>>, class |-> "accent_top"] }

\* the outcomes of client.post(...) and raise_for_status (accent_marker.py:214-215)
OjadFailures ==
    { [kind |-> k] : k \in {"ReadTimeout", "TooManyRedirects", "ConnectError",
                            "Exception"} }
    \cup { [kind |-> "HTTPStatusError", status |-> st] : st \in {404, 503} }

OjadRepliesUpTo(n) ==
    OjadFailures \cup { [kind |-> "html", mojis |-> ms] : ms \in SeqsUpTo(OjadMojis, n) }

OjadReplies == OjadRepliesUpTo(MaxMojis)

\* accent_marker.py:237-244, one iteration of "for moji in mojis"
MojiAccent(moji) ==
    IF moji.class = "accent_plain" THEN 1
    ELSE IF moji.class = "accent_top" THEN 2
    ELSE 0

\* accent_marker.py:226-245: the list get_ojad_result returns
get_ojad_result(mojis) ==
    [k \in 1 .. Len(mojis) |-> [text |-> mojis[k].text, accent |-> MojiAccent(mojis[k])]]

(***************************************************************************)
(* accent_marker.py: mark_accent, the alignment of one furigana token       *)
(***************************************************************************)
AccentInfo(furigana, accent_marking_type, length) ==
    [furigana |-> furigana, accent_marking_type |-> accent_marking_type,
     length |-> length]

SingleWordAccentResultObject(furigana, surface, accent) ==
    [furigana |-> furigana, surface |-> surface, accent |-> accent]

MultiWordAccentResultObject(furigana, surface, accent, subword) ==
    [furigana |-> furigana, surface |-> surface, accent |-> accent,
     subword |-> subword]

AccentErrorInfo(code, message) ==
    Some([code |-> code, message |-> message, length |-> 0])

AccentResponse(status, result, error) ==
    [status |-> status, result |-> result, error |-> error]

\* accent_marker.py:280-282
IsBypass(furigana_result) ==
    /\ "subword" \notin DOMAIN furigana_result
    /\ \E k \in 1 .. Len(furigana_result.furigana) :
         ~is_kana_or_kanji(furigana_result.furigana[k])

\* a bypass fragment that carries the reading instead of the surface
BypassResultReadingText(furigana_result) ==
    SingleWordAccentResultObject(
        furigana_result.furigana,
        furigana_result.surface,
        << AccentInfo(furigana_result.furigana, 0, Len(furigana_result.furigana)) >>)

\* a bypass result whose surface is taken from the reading
BypassResultReadingSurface(furigana_result) ==
    SingleWordAccentResultObject(
        furigana_result.furigana,
        furigana_result.furigana,
        << AccentInfo(furigana_result.surface, 0, Len(furigana_result.surface)) >>)

\* accent_marker.py:287-298
BypassResult(furigana_result) ==
    SingleWordAccentResultObject(
        furigana_result.furigana,
        furigana_result.surface,
        << AccentInfo(furigana_result.surface, 0, Len(furigana_result.surface)) >>)

\* a seek that starts over from the first accent token
SeekStartRewinds(cursor) == 0

\* accent_marker.py:304: where the prefix seek of a token starts (0-based)
SeekStart(cursor) == cursor

\* a prefix seek that compares the accent fragment as received, without
\* turning its katakana into hiragana
RECURSIVE RemoveMismatchingPrefixRaw(_, _, _)
RemoveMismatchingPrefixRaw(yahoo_furigana_hira, ojad, ojad_idx) ==
    IF /\ ojad_idx < Len(ojad)
       /\ ~StartsWith(yahoo_furigana_hira, ojad[ojad_idx + 1].text)
    THEN RemoveMismatchingPrefixRaw(yahoo_furigana_hira, ojad, ojad_idx + 1)
    ELSE ojad_idx

\* accent_marker.py:305-308: the index at which the first while loop stops
RECURSIVE RemoveMismatchingPrefix(_, _, _)
RemoveMismatchingPrefix(yahoo_furigana_hira, ojad, ojad_idx) ==
    IF /\ ojad_idx < Len(ojad)
       /\ ~StartsWith(yahoo_furigana_hira, kata2hira(ojad[ojad_idx + 1].text))
    THEN RemoveMismatchingPrefix(yahoo_furigana_hira, ojad, ojad_idx + 1)
    ELSE ojad_idx

\* a consumption that takes one accent token and stops
MatchFuriganaOneToken(yahoo_furigana, ojad, ojad_idx, ojad_furigana, accents) ==
    IF Len(ojad_furigana) < Len(yahoo_furigana) /\ ojad_idx < Len(ojad)
    THEN LET ojad_text == ojad[ojad_idx + 1].text
         IN  [ojad_idx |-> ojad_idx + 1, ojad_furigana |-> ojad_furigana \o ojad_text,
              accents |-> Append(accents,
                                 AccentInfo(ojad_text, ojad[ojad_idx + 1].accent,
                                            Len(ojad_text)))]
    ELSE [ojad_idx |-> ojad_idx, ojad_furigana |-> ojad_furigana,
          accents |-> accents]

\* a consumption that goes on to the end of the accent stream
RECURSIVE MatchFuriganaExhausts(_, _, _, _, _)
MatchFuriganaExhausts(yahoo_furigana, ojad, ojad_idx, ojad_furigana, accents) ==
    IF ojad_idx < Len(ojad)
    THEN LET ojad_text == ojad[ojad_idx + 1].text
         IN  MatchFuriganaExhausts(yahoo_furigana, ojad, ojad_idx + 1,
                                   ojad_furigana \o ojad_text,
                                   Append(accents,
                                          AccentInfo(ojad_text,
                                                     ojad[ojad_idx + 1].accent,
                                                     Len(ojad_text))))
    ELSE [ojad_idx |-> ojad_idx, ojad_furigana |-> ojad_furigana,
          accents |-> accents]

\* accent_marker.py:311-325: the state in which the second while loop stops
RECURSIVE MatchFurigana(_, _, _, _, _)
MatchFurigana(yahoo_furigana, ojad, ojad_idx, ojad_furigana, accents) ==
    IF Len(ojad_furigana) < Len(yahoo_furigana) /\ ojad_idx < Len(ojad)
    THEN LET ojad_text == ojad[ojad_idx + 1].text
         IN  MatchFurigana(yahoo_furigana, ojad, ojad_idx + 1,
                           ojad_furigana \o ojad_text,
                           Append(accents,
                                  AccentInfo(ojad_text, ojad[ojad_idx + 1].accent,
                                             Len(ojad_text))))
    ELSE [ojad_idx |-> ojad_idx, ojad_furigana |-> ojad_furigana,
          accents |-> accents]

\* a validation without the length check: the consumed fragments only
\* have to begin with the reading
MergeValidLoose(ojad_furigana, yahoo_furigana) ==
    StartsWith(kata2hira(ojad_furigana), kata2hira(yahoo_furigana))

\* accent_marker.py:328-330
MergeValid(ojad_furigana, yahoo_furigana) ==
    /\ Len(ojad_furigana) = Len(yahoo_furigana)
    /\ kata2hira(ojad_furigana) = kata2hira(yahoo_furigana)

\* a rebuild that never advances yahoo_furigana_idx
RECURSIVE BuildAccentInfoListNoAdvance(_, _, _, _)
BuildAccentInfoListNoAdvance(yahoo_furigana, accents, idx, yahoo_furigana_idx) ==
    IF idx > Len(accents) THEN <<>>
    ELSE << AccentInfo(Slice(yahoo_furigana, yahoo_furigana_idx,
                             yahoo_furigana_idx + accents[idx].length),
                       accents[idx].accent_marking_type,
                       accents[idx].length) >>
         \o BuildAccentInfoListNoAdvance(yahoo_furigana, accents, idx + 1,
                                         yahoo_furigana_idx)

\* a rebuild that keeps the text of the accent source in each fragment
RECURSIVE BuildAccentInfoListOjadText(_, _, _, _)
BuildAccentInfoListOjadText(yahoo_furigana, accents, idx, yahoo_furigana_idx) ==
    IF idx > Len(accents) THEN <<>>
    ELSE << AccentInfo(accents[idx].furigana,
                       accents[idx].accent_marking_type,
                       accents[idx].length) >>
         \o BuildAccentInfoListOjadText(yahoo_furigana, accents, idx + 1,
                                        yahoo_furigana_idx + accents[idx].length)

\* accent_marker.py:335-347
RECURSIVE BuildAccentInfoList(_, _, _, _)
BuildAccentInfoList(yahoo_furigana, accents, idx, yahoo_furigana_idx) ==
    IF idx > Len(accents) THEN <<>>
    ELSE << AccentInfo(Slice(yahoo_furigana, yahoo_furigana_idx,
                             yahoo_furigana_idx + accents[idx].length),
                       accents[idx].accent_marking_type,
                       accents[idx].length) >>
         \o BuildAccentInfoList(yahoo_furigana, accents, idx + 1,
                                yahoo_furigana_idx + accents[idx].length)

\* pydantic's validation of a str field: a dict is not a str
IsStr(value) == value.type = "str"

\* accent_marker.py:367-370: the list comprehension over yahoo_subword; None
\* when SingleWordResultObject(furigana=s, surface=s) raises ValidationError
SubwordObjects(yahoo_subword) ==
    IF \A k \in 1 .. Len(yahoo_subword) : IsStr(yahoo_subword[k])
    THEN Some([k \in 1 .. Len(yahoo_subword) |->
                 [furigana |-> yahoo_subword[k], surface |-> yahoo_subword[k]]])
    ELSE None

\* accent_marker.py:304-325: the two while loops for one token
Merge(furigana_result, ojad, cursor) ==
    LET seek == RemoveMismatchingPrefix(kata2hira(furigana_result.furigana), ojad,
                                        SeekStart(cursor))
        m    == MatchFurigana(furigana_result.furigana, ojad, seek, <<>>, <<>>)
    IN  [seek |-> seek, ojad_idx |-> m.ojad_idx, ojad_furigana |-> m.ojad_furigana,
         accents |-> m.accents]

\* a merge that moves the cursor whether or not it is accepted
CursorAfterMergeAlways(valid, cursor, ojad_idx) == ojad_idx

\* a merge that never moves the cursor
CursorAfterMergeStuck(valid, cursor, ojad_idx) == cursor

\* accent_marker.py:328-350, 373: the cursor after the merge of one token; only
\* the accepting branch assigns ojad_idx_cnt
CursorAfterMerge(valid, cursor, ojad_idx) == IF valid THEN ojad_idx ELSE cursor

\* accent_marker.py:383-418: the response built by the except clauses
ExceptResponse(reply) ==
    CASE reply.kind = "ReadTimeout" ->
           AccentResponse(504, <<>>, AccentErrorInfo(504, "Request Timeout"))
      [] reply.kind = "TooManyRedirects" ->
           AccentResponse(500, <<>>, AccentErrorInfo(500, "Too many redirects"))
      [] reply.kind = "HTTPStatusError" ->
           AccentResponse(reply.status, <<>>, AccentErrorInfo(reply.status, "HTTPStatusError"))
      [] reply.kind = "ConnectError" ->
           AccentResponse(500, <<>>, AccentErrorInfo(500, "Connection error"))
      [] OTHER ->
           AccentResponse(500, <<>>, AccentErrorInfo(500, "Non-usual error occurs"))

(***************************************************************************)
(* accent_marker.py: the query text                                         *)
(*   65 'A'   65313 U+FF21 full-width 'A'   12316 U+301C wave dash           *)
(*   126 '~'  65398 U+FF76 half-width katakana KA                            *)
(***************************************************************************)
\* string.ascii_lowercase + string.ascii_uppercase (accent_marker.py:104)
skip_marks == (97 .. 122) \cup (65 .. 90)

\* accent_marker.py:107-112
clean_query(query) == SelectSeq(query, LAMBDA c : c \notin skip_marks)

\* neologdn.normalize(text, tilde="normalize") on one character: full-width
\* ASCII becomes ASCII, the wave dash becomes '~', half-width katakana KA
\* becomes full-width; the other characters used here are kept
neologdn_char(c) ==
    IF c \in 65281 .. 65374 THEN c - 65248
    ELSE IF c = 12316 THEN 126
    ELSE IF c = 65398 THEN 12459
    ELSE c

\* accent_marker.py:254
neologdn_normalize(text) == [k \in 1 .. Len(text) |-> neologdn_char(text[k])]

\* the accent source is sent the request text as received
OjadQueryTextRaw(text, normalized) == text

\* accent_marker.py:255: the text given to mark_furigana
FuriganaQueryText(text, normalized) == normalized

\* accent_marker.py:259: the text given to get_ojad_result
OjadQueryText(text, normalized) == normalized

(***************************************************************************)
(* State of one MarkAccent request                                          *)
(***************************************************************************)
VARIABLES
    pc,                     \* "start", "ojad", "loop", "done"
    yahoo_reply,            \* what the furigana source answered
    ojad_reply,             \* what the accent source answered
    furigana_response,      \* accent_marker.py:255
    furigana_results,       \* accent_marker.py:257
    ojad_results,           \* accent_marker.py:259
    final_response_results, \* accent_marker.py:266
    ojad_idx_cnt,           \* accent_marker.py:267, the shared accent cursor
    pos,                    \* number of furigana_results the for loop has taken
    log,                    \* one entry per token taken (the print calls)
    response,               \* accent_marker.py:381-419
    request_text,           \* request.text
    query_text,             \* accent_marker.py:254
    upstream,               \* the calls made to the two sources, in order
    first,                  \* what an earlier run of the loop on the same lists gave
    reqs,                   \* the locals of each of two concurrent requests
    http_client,            \* main.py:33, shared: the posts in flight on it
    steps,                  \* accent_marker.py:304-325: the two while loops of
                            \* one token, taken one iteration at a time
    usage                   \* usage_query.py: one request to a UsageQuery route

vars == << pc, yahoo_reply, ojad_reply, furigana_response, furigana_results,
           ojad_results, final_response_results, ojad_idx_cnt, pos, log,
           response, request_text, query_text, upstream, first, reqs,
           http_client, steps, usage >>

\* what no step of a single first run of the request reads or writes
other_vars == << first, reqs, http_client, steps, usage >>

\* no request to a UsageQuery route yet
NoUsage == [op |-> "none"]

\* no token has entered its while loops yet
NoSteps ==
    [token |-> 0, phase |-> "seek", ojad_idx |-> 0, ojad_furigana |-> <<>>,
     accents |-> <<>>, advances |-> 0]

\* what the alignment loop neither reads nor writes
call_vars == << request_text, query_text, upstream, other_vars >>

NoReply == [kind |-> "none"]

NoResponse == [status |-> 0, result |-> <<>>, error |-> None]

\* the two concurrent requests
Requests == {1, 2}

\* the locals of a request that has just arrived; interleaved records
\* whether the request was resumed while another one was between its awaits
NewRequest ==
    [pc |-> "start", yahoo_reply |-> NoReply, ojad_reply |-> NoReply,
     furigana_results |-> <<>>, ojad_results |-> <<>>,
     final_response_results |-> <<>>, ojad_idx_cnt |-> 0,
     response |-> NoResponse, interleaved |-> FALSE]

\* the request text of the runs that explore the answers of the two sources
AnswersText == << 20170, 12365 >>

\* a request with one of the given texts has arrived
InitWith(texts) ==
    /\ request_text \in texts
    /\ query_text = <<>>
    /\ upstream = <<>>
    /\ first = None
    /\ reqs = [r \in Requests |-> NewRequest]
    /\ http_client = 0
    /\ steps = NoSteps
    /\ usage = NoUsage
    /\ pc = "start"
    /\ yahoo_reply = NoReply
    /\ ojad_reply = NoReply
    /\ furigana_response = NoResponse
    /\ furigana_results = <<>>
    /\ ojad_results = <<>>
    /\ final_response_results = <<>>
    /\ ojad_idx_cnt = 0
    /\ pos = 0
    /\ log = <<>>
    /\ response = NoResponse

Init == InitWith({AnswersText})

\* accent_marker.py:254-257: await mark_furigana(...), then take its "result"
CallMarkFuriganaFrom(replies) ==
    /\ pc = "start"
    /\ query_text' = neologdn_normalize(request_text)
    /\ upstream' = Append(upstream,
                          [source |-> "furigana",
                           text |-> FuriganaQueryText(request_text,
                                                      neologdn_normalize(request_text))])
    /\ \E reply \in replies :
         /\ yahoo_reply' = reply
         /\ furigana_response' = mark_furigana(reply)
         /\ furigana_results' = mark_furigana(reply).result
    /\ pc' = "ojad"
    /\ UNCHANGED << ojad_reply, ojad_results, final_response_results,
                    ojad_idx_cnt, pos, log, response, request_text >>
    /\ UNCHANGED other_vars

CallMarkFurigana == CallMarkFuriganaFrom(YahooReplies)

\* accent_marker.py:259, 266-267: get_ojad_result returns
GetOjadResultReturnsFrom(replies) ==
    /\ pc = "ojad"
    /\ upstream' = Append(upstream,
                          [source |-> "ojad",
                           text |-> OjadQueryText(request_text, query_text)])
    /\ \E reply \in replies :
         /\ reply.kind = "html"
         /\ ojad_reply' = reply
         /\ ojad_results' = get_ojad_result(reply.mojis)
    /\ final_response_results' = <<>>
    /\ ojad_idx_cnt' = 0
    /\ pc' = "loop"
    /\ UNCHANGED << yahoo_reply, furigana_response, furigana_results, pos, log,
                    response, request_text, query_text >>
    /\ UNCHANGED other_vars

GetOjadResultReturns == GetOjadResultReturnsFrom(OjadReplies)

\* accent_marker.py:259, 383-419: get_ojad_result raises
GetOjadResultRaisesFrom(replies) ==
    /\ pc = "ojad"
    /\ upstream' = Append(upstream,
                          [source |-> "ojad",
                           text |-> OjadQueryText(request_text, query_text)])
    /\ \E reply \in replies :
         /\ reply.kind # "html"
         /\ ojad_reply' = reply
         /\ response' = ExceptResponse(reply)
    /\ pc' = "done"
    /\ UNCHANGED << yahoo_reply, furigana_response, furigana_results,
                    ojad_results, final_response_results, ojad_idx_cnt, pos, log,
                    request_text, query_text >>
    /\ UNCHANGED other_vars

GetOjadResultRaises == GetOjadResultRaisesFrom(OjadReplies)

\* the token the for loop takes next (accent_marker.py:268)
NextToken == furigana_results[pos + 1]

InLoop == pc = "loop" /\ pos < Len(furigana_results)

\* accent_marker.py:280-299: the bypass branch
BypassToken ==
    /\ InLoop
    /\ IsBypass(NextToken)
    /\ final_response_results' = Append(final_response_results, BypassResult(NextToken))
    /\ log' = Append(log, [outcome |-> "bypass", before |-> ojad_idx_cnt,
                           after |-> ojad_idx_cnt, emitted |-> 1])
    /\ pos' = pos + 1
    /\ UNCHANGED call_vars
    /\ UNCHANGED << pc, yahoo_reply, ojad_reply, furigana_response,
                    furigana_results, ojad_results, ojad_idx_cnt, response >>

LogEntry(outcome, m, after, emitted) ==
    [outcome |-> outcome, before |-> ojad_idx_cnt, seek |-> m.seek,
     ojad_idx |-> m.ojad_idx, ojad_furigana |-> m.ojad_furigana,
     after |-> after, emitted |-> emitted]

\* accent_marker.py:304-372: the merge is accepted and a result is appended
MergeAccepted ==
    /\ InLoop
    /\ ~IsBypass(NextToken)
    /\ LET m == Merge(NextToken, ojad_results, ojad_idx_cnt)
           accent_info_list == BuildAccentInfoList(NextToken.furigana, m.accents, 1, 0)
       IN  /\ MergeValid(m.ojad_furigana, NextToken.furigana)
           /\ IF "subword" \notin DOMAIN NextToken
              THEN final_response_results' =
                     Append(final_response_results,
                            SingleWordAccentResultObject(
                                NextToken.furigana, NextToken.surface, accent_info_list))
              ELSE /\ SubwordObjects(NextToken.subword) # None
                   /\ final_response_results' =
                        Append(final_response_results,
                               MultiWordAccentResultObject(
                                   NextToken.furigana, NextToken.surface,
                                   accent_info_list,
                                   SubwordObjects(NextToken.subword)[1]))
           /\ ojad_idx_cnt' = CursorAfterMerge(TRUE, ojad_idx_cnt, m.ojad_idx)
           /\ log' = Append(log, LogEntry("success", m,
                        CursorAfterMerge(TRUE, ojad_idx_cnt, m.ojad_idx), 1))
    /\ pos' = pos + 1
    /\ UNCHANGED call_vars
    /\ UNCHANGED << pc, yahoo_reply, ojad_reply, furigana_response,
                    furigana_results, ojad_results, response >>

\* accent_marker.py:350, 361-370, 413-419: the merge is accepted, the cursor is
\* updated, building the subword objects raises and the request ends in the
\* last except clause
MergeAcceptedRaises ==
    /\ InLoop
    /\ ~IsBypass(NextToken)
    /\ LET m == Merge(NextToken, ojad_results, ojad_idx_cnt)
       IN  /\ MergeValid(m.ojad_furigana, NextToken.furigana)
           /\ "subword" \in DOMAIN NextToken
           /\ SubwordObjects(NextToken.subword) = None
           /\ ojad_idx_cnt' = CursorAfterMerge(TRUE, ojad_idx_cnt, m.ojad_idx)
           /\ log' = Append(log, LogEntry("raised", m,
                        CursorAfterMerge(TRUE, ojad_idx_cnt, m.ojad_idx), 0))
    /\ pos' = pos + 1
    /\ response' = ExceptResponse([kind |-> "ValidationError"])
    /\ pc' = "done"
    /\ UNCHANGED call_vars
    /\ UNCHANGED << yahoo_reply, ojad_reply, furigana_response, furigana_results,
                    ojad_results, final_response_results >>

\* accent_marker.py:304-330, 373-379: the merge fails validation
MergeRejected ==
    /\ InLoop
    /\ ~IsBypass(NextToken)
    /\ LET m == Merge(NextToken, ojad_results, ojad_idx_cnt)
       IN  /\ ~MergeValid(m.ojad_furigana, NextToken.furigana)
           /\ ojad_idx_cnt' = CursorAfterMerge(FALSE, ojad_idx_cnt, m.ojad_idx)
           /\ log' = Append(log, LogEntry("error", m,
                        CursorAfterMerge(FALSE, ojad_idx_cnt, m.ojad_idx), 0))
    /\ pos' = pos + 1
    /\ UNCHANGED call_vars
    /\ UNCHANGED << pc, yahoo_reply, ojad_reply, furigana_response,
                    furigana_results, ojad_results, final_response_results,
                    response >>

\* accent_marker.py:381, 419: the loop is over
ReturnResponse ==
    /\ pc = "loop"
    /\ pos = Len(furigana_results)
    /\ response' = AccentResponse(200, final_response_results, None)
    /\ pc' = "done"
    /\ UNCHANGED call_vars
    /\ UNCHANGED << yahoo_reply, ojad_reply, furigana_response, furigana_results,
                    ojad_results, final_response_results, ojad_idx_cnt, pos, log >>

Next ==
    \/ CallMarkFurigana
    \/ GetOjadResultReturns
    \/ GetOjadResultRaises
    \/ BypassToken
    \/ MergeAccepted
    \/ MergeAcceptedRaises
    \/ MergeRejected
    \/ ReturnResponse

Spec == Init /\ [][Next]_vars

TypeOK ==
    /\ pc \in {"start", "ojad", "loop", "done"}
    /\ ojad_idx_cnt \in Nat
    /\ pos \in 0 .. Len(furigana_results)
    /\ Len(log) = pos

(***************************************************************************)
(* Helpers of the properties                                                *)
(***************************************************************************)
\* the accent-token indices (0-based) whose fragments entry e consumed
Consumed(e) == e.seek .. e.ojad_idx - 1

\* the position in final_response_results of the result of the k-th token
RECURSIVE Emitted(_)
Emitted(k) == IF k = 0 THEN 0 ELSE Emitted(k - 1) + log[k].emitted

RECURSIVE Concat(_)
Concat(ss) == IF Len(ss) = 0 THEN <<>> ELSE Head(ss) \o Concat(Tail(ss))

FragmentTexts(result) == [k \in 1 .. Len(result.accent) |-> result.accent[k].furigana]

(***************************************************************************)
(* C1: the shared accent cursor ojad_idx_cnt never decreases from one step  *)
(* of mark_accent to the next, and it always stays within                   *)
(* 0 .. len(ojad_results).                                                  *)
(***************************************************************************)
C1_CursorNeverDecreases ==
    [][ /\ ojad_idx_cnt' >= ojad_idx_cnt
        /\ ojad_idx_cnt' \in 0 .. Len(ojad_results') ]_vars

\* two tokens were taken and the second one moved the cursor further
C1_Witness ==
    /\ Len(log) >= 2
    /\ log[1].after > log[1].before
    /\ log[2].after > log[2].before

(***************************************************************************)
(* C2: no accent token is consumed twice: of two emitted aligned results,   *)
(* every accent-token index consumed into the earlier one is strictly       *)
(* smaller than every index consumed into the later one.                    *)
(***************************************************************************)
C2_NoAccentTokenConsumedTwice ==
    \A i, j \in 1 .. Len(log) :
        (/\ i < j
         /\ log[i].outcome = "success"
         /\ log[j].outcome = "success")
        => \A a \in Consumed(log[i]) : \A b \in Consumed(log[j]) : a < b

\* two aligned results, each made of at least one accent token
C2_Witness ==
    \E i, j \in 1 .. Len(log) :
        /\ i < j
        /\ log[i].outcome = "success" /\ Consumed(log[i]) # {}
        /\ log[j].outcome = "success" /\ Consumed(log[j]) # {}

(***************************************************************************)
(* C3: bypass rule: a token without sub-tokens whose reading has a          *)
(* character that is not kana/kanji gets exactly one result, with the       *)
(* token's surface and reading and a single fragment: the surface, mark 0,  *)
(* length of the surface.                                                   *)
(***************************************************************************)
C3_BypassRule ==
    /\ Len(final_response_results) = Emitted(Len(log))
    /\ \A k \in 1 .. Len(log) :
        LET t == furigana_results[k]
        IN  (/\ "subword" \notin DOMAIN t
             /\ \E c \in 1 .. Len(t.furigana) : ~is_kana_or_kanji(t.furigana[c]))
            => /\ log[k].emitted = 1
               /\ final_response_results[Emitted(k)] =
                    [furigana |-> t.furigana, surface |-> t.surface,
                     accent |-> << [furigana |-> t.surface,
                                    accent_marking_type |-> 0,
                                    length |-> Len(t.surface)] >>]

\* a bypassed token whose surface differs from its reading, after an aligned one
C3_Witness ==
    \E k \in 2 .. Len(log) :
        /\ log[k].outcome = "bypass"
        /\ log[k - 1].outcome = "success"
        /\ furigana_results[k].surface # furigana_results[k].furigana

(***************************************************************************)
(* C4: the cursor changes only when a merge is accepted: after a bypassed   *)
(* token or a token whose merge fails validation the cursor is what it was  *)
(* before that token, and the next token starts from that same index.       *)
(***************************************************************************)
C4_CursorKeptWithoutAcceptedMerge ==
    \A k \in 1 .. Len(log) :
        log[k].outcome \in {"bypass", "error"}
        => /\ log[k].after = log[k].before
           /\ k < Len(log) => log[k + 1].before = log[k].before
           /\ k = Len(log) => ojad_idx_cnt = log[k].before

\* a rejected merge that had consumed accent tokens, followed by another token
C4_Witness ==
    \E k \in 1 .. Len(log) - 1 :
        /\ log[k].outcome = "error"
        /\ log[k].ojad_idx > log[k].before
        /\ log[k + 1].outcome = "success"

\* the merge recorded in log entry k passed the validation of its token
PassedValidation(k) ==
    /\ Len(log[k].ojad_furigana) = Len(furigana_results[k].furigana)
    /\ kata2hira(log[k].ojad_furigana) = kata2hira(furigana_results[k].furigana)

(***************************************************************************)
(* C5: for every non-bypass token a result is emitted if and only if the    *)
(* concatenation of the fragments consumed for it has the reading's length  *)
(* and equals the reading after katakana-to-hiragana normalization.         *)
(***************************************************************************)
C5_EmittedIffValid ==
    \A k \in 1 .. Len(log) :
        log[k].outcome # "bypass" => (log[k].emitted = 1 <=> PassedValidation(k))

(***************************************************************************)
(* C6: a token whose merge fails validation is the only thing its failure   *)
(* removes: the request ends with status 200, a null error and the results  *)
(* of all other tokens.                                                     *)
(***************************************************************************)
C6_MismatchIsTokenLocal ==
    (/\ pc = "done"
     /\ ojad_reply.kind = "html"
     /\ \E k \in 1 .. Len(log) : log[k].outcome = "error")
    => /\ response.status = 200
       /\ response.error = None
       /\ Len(response.result) =
            Cardinality({k \in 1 .. Len(furigana_results) :
                           k > Len(log) \/ log[k].outcome # "error"})

(***************************************************************************)
(* C7 as stated: in every emitted result, aligned or bypass, the            *)
(* concatenation of the fragment texts equals the reading after             *)
(* katakana/hiragana normalization.                                         *)
(***************************************************************************)
C7_FragmentsSpellReading ==
    \A n \in 1 .. Len(final_response_results) :
        kata2hira(Concat(FragmentTexts(final_response_results[n])))
          = kata2hira(final_response_results[n].furigana)

(***************************************************************************)
(* C7 amended: in every aligned (non-bypass) result the concatenation of    *)
(* the fragment texts equals the reading after katakana/hiragana            *)
(* normalization; in a bypass result the single fragment's text is the      *)
(* result's surface.                                                        *)
(***************************************************************************)
C7_AlignedFragmentsSpellReading ==
    \A k \in 1 .. Len(log) :
        log[k].emitted = 1 =>
            LET r == final_response_results[Emitted(k)]
            IN  IF log[k].outcome = "bypass"
                THEN FragmentTexts(r) = << r.surface >>
                ELSE kata2hira(Concat(FragmentTexts(r))) = kata2hira(r.furigana)

\* an aligned result of two fragments taken from a katakana accent token,
\* and a bypass result whose surface is not its reading
C7_Witness ==
    \E k, b \in 1 .. Len(log) :
        /\ log[k].outcome = "success"
        /\ Len(final_response_results[Emitted(k)].accent) = 2
        /\ log[k].ojad_furigana # furigana_results[k].furigana
        /\ log[b].outcome = "bypass"
        /\ furigana_results[b].surface # furigana_results[b].furigana

\* the (surface, reading) pairs of the first k tokens, mismatched ones left out
RECURSIVE KeptTokens(_)
KeptTokens(k) ==
    IF k = 0 THEN <<>>
    ELSE IF log[k].outcome = "error" THEN KeptTokens(k - 1)
    ELSE Append(KeptTokens(k - 1),
                [surface |-> furigana_results[k].surface,
                 furigana |-> furigana_results[k].furigana])

\* the (surface, reading) pairs of the first k tokens that were mismatched
RECURSIVE DroppedTokens(_)
DroppedTokens(k) ==
    IF k = 0 THEN <<>>
    ELSE IF log[k].outcome # "error" THEN DroppedTokens(k - 1)
    ELSE Append(DroppedTokens(k - 1),
                [surface |-> furigana_results[k].surface,
                 furigana |-> furigana_results[k].furigana])

RECURSIVE SurfaceLength(_)
SurfaceLength(rs) ==
    IF Len(rs) = 0 THEN 0 ELSE Len(Head(rs).surface) + SurfaceLength(Tail(rs))

(***************************************************************************)
(* C8: the result list of a request that ends with status 200 is the        *)
(* furigana-token list without the validation-mismatched tokens, in order,  *)
(* each result with its token's surface and reading; so the surfaces of the *)
(* results add up to the surfaces of the tokens less those of the           *)
(* mismatched tokens.                                                       *)
(***************************************************************************)
C8_NoSilentCharacterLoss ==
    (pc = "done" /\ response.status = 200)
    => /\ Len(log) = Len(furigana_results)
       /\ [n \in 1 .. Len(response.result) |->
             [surface |-> response.result[n].surface,
              furigana |-> response.result[n].furigana]]
            = KeptTokens(Len(furigana_results))
       /\ SurfaceLength(response.result)
            = SurfaceLength(furigana_results)
              - SurfaceLength(DroppedTokens(Len(furigana_results)))

\* a status-200 response that lost a mismatched token and kept a bypassed one
\* whose surface is not its reading
C8_Witness ==
    /\ pc = "done"
    /\ response.status = 200
    /\ \E k, b \in 1 .. Len(log) :
         /\ log[k].outcome = "error"
         /\ log[b].outcome = "bypass"
         /\ furigana_results[b].surface # furigana_results[b].furigana

(***************************************************************************)
(* C9: a token that carries sub-tokens and whose merge is accepted gets a   *)
(* result whose subword list is the token's sub-token list, entry by entry  *)
(* with the same surface and reading, and the request does not fail.        *)
(***************************************************************************)
C9_SubwordPassthrough ==
    \A k \in 1 .. Len(log) :
        ("subword" \in DOMAIN furigana_results[k] /\ PassedValidation(k))
        => /\ log[k].emitted = 1
           /\ LET r == final_response_results[Emitted(k)]
                  t == furigana_results[k]
              IN  /\ "subword" \in DOMAIN r
                  /\ Len(r.subword) = Len(t.subword)
                  /\ \A n \in 1 .. Len(t.subword) :
                       /\ r.subword[n].surface = t.subword[n].surface
                       /\ r.subword[n].furigana = t.subword[n].furigana

\* the furigana fetch failed: no answer, a non-200 answer or a malformed one
FuriganaFetchFailed ==
    \/ yahoo_reply.kind \in {"status", "ContentTypeError", "TimeoutError",
                             "ClientConnectionError", "Exception"}
    \/ yahoo_reply.kind = "json" /\ UnexpectedStructure(yahoo_reply.body)

\* the accent fetch failed
OjadFetchFailed ==
    ojad_reply.kind \in {"ReadTimeout", "TooManyRedirects", "HTTPStatusError",
                         "ConnectError", "Exception"}

(***************************************************************************)
(* C10: when the furigana fetch or the accent fetch fails, the response has *)
(* a status other than 200, an empty result list and an error object.       *)
(***************************************************************************)
C10_UpstreamErrorsAbort ==
    (pc = "done" /\ (FuriganaFetchFailed \/ OjadFetchFailed))
    => /\ response.status # 200
       /\ response.result = <<>>
       /\ response.error # None

\* the kind of failure of the furigana fetch: a timeout, a connection
\* failure, a malformed response, or anything else
FuriganaFailureKind ==
    CASE yahoo_reply.kind = "TimeoutError" -> "timeout"
      [] yahoo_reply.kind = "ClientConnectionError" -> "connection"
      [] yahoo_reply.kind \in {"ContentTypeError", "json"} -> "malformed"
      [] OTHER -> "other"

\* the kind of failure of the accent fetch
OjadFailureKind ==
    CASE ojad_reply.kind = "ReadTimeout" -> "timeout"
      [] ojad_reply.kind = "ConnectError" -> "connection"
      [] OTHER -> "other"

\* the status the failure kinds are said to give
FailureStatus(kind) ==
    CASE kind = "timeout" -> 504
      [] kind = "connection" -> 503
      [] kind = "malformed" -> 502
      [] OTHER -> 500

(***************************************************************************)
(* C11: whenever an upstream fetch fails, the status of the response of     *)
(* mark_furigana and of mark_accent is one of 500, 502, 503, 504, the one   *)
(* of the failure kind: timeout 504, connection failure 503, malformed      *)
(* response 502, anything else 500.                                         *)
(***************************************************************************)
C11_FailureStatusByKind ==
    /\ (pc # "start" /\ FuriganaFetchFailed)
       => furigana_response.status = FailureStatus(FuriganaFailureKind)
    /\ (pc = "done" /\ OjadFetchFailed)
       => response.status = FailureStatus(OjadFailureKind)
    /\ (pc = "done" /\ (FuriganaFetchFailed \/ OjadFetchFailed))
       => response.status \in {500, 502, 503, 504}

(***************************************************************************)
(* C20: when the JSON body of the furigana source has an "error" member,    *)
(* mark_furigana returns status 400, an empty result and an error object    *)
(* with that member's code and message, with or without a "result" member.  *)
(***************************************************************************)
C20_ErrorMemberGives400 ==
    (/\ yahoo_reply.kind = "json"
     /\ yahoo_reply.body.type = "dict"
     /\ "error" \in DOMAIN yahoo_reply.body)
    => furigana_response =
         FuriganaResponse(400, <<>>,
                          FuriganaErrorInfo(yahoo_reply.body.error.code,
                                            yahoo_reply.body.error.message))

(***************************************************************************)
(* Requests with different texts                                            *)
(***************************************************************************)
MaxTextLen == 2
QueryWords == 1
QueryMojis == 1

\* 'A', full-width 'A', hiragana KA, wave dash
TextChars == {65, 65313, 12363, 12316}

RequestTexts == SeqsUpTo(TextChars, MaxTextLen)

InitQuery == InitWith(RequestTexts)

CallMarkFuriganaQuery == CallMarkFuriganaFrom(YahooRepliesUpTo(QueryWords))

GetOjadResultReturnsQuery == GetOjadResultReturnsFrom(OjadRepliesUpTo(QueryMojis))

GetOjadResultRaisesQuery == GetOjadResultRaisesFrom(OjadRepliesUpTo(QueryMojis))

NextQuery ==
    \/ CallMarkFuriganaQuery
    \/ GetOjadResultReturnsQuery
    \/ GetOjadResultRaisesQuery
    \/ BypassToken
    \/ MergeAccepted
    \/ MergeAcceptedRaises
    \/ MergeRejected
    \/ ReturnResponse

SpecQuery == InitQuery /\ [][NextQuery]_vars

C19_OjadQueryIsCleaned ==
    \A k \in 1 .. Len(upstream) :
        upstream[k].source = "ojad"
        => /\ \A i \in 1 .. Len(upstream[k].text) :
                upstream[k].text[i] \notin skip_marks
           /\ upstream[k].text = clean_query(neologdn_normalize(request_text))

\* the accent tokens from the cursor on whose normalized fragment is a prefix
\* of the normalized reading of the k-th furigana token (0-based indices)
PrefixPositions(k) ==
    { j \in log[k].before .. Len(ojad_results) - 1 :
        StartsWith(kata2hira(furigana_results[k].furigana),
                   kata2hira(ojad_results[j + 1].text)) }

\* the smallest element of a non-empty set of numbers
Smallest(S) == CHOOSE j \in S : \A i \in S : j <= i

(***************************************************************************)
(* C16: for every non-bypass furigana token, consumption starts at the      *)
(* smallest index k >= the cursor whose normalized accent fragment is a     *)
(* prefix of the normalized reading, or at the end of the accent stream if  *)
(* there is none; the accent tokens the seek skipped are in no fragment of  *)
(* the token's result.                                                      *)
(***************************************************************************)
C16_PrefixSeek ==
    \A k \in 1 .. Len(log) :
        log[k].outcome # "bypass"
        => /\ log[k].seek = IF PrefixPositions(k) = {}
                            THEN Len(ojad_results)
                            ELSE Smallest(PrefixPositions(k))
           /\ log[k].outcome = "success"
              => LET accent == final_response_results[Emitted(k)].accent
                 IN  /\ Len(accent) = log[k].ojad_idx - log[k].seek
                     /\ \A i \in 1 .. Len(accent) :
                          /\ accent[i].accent_marking_type
                               = ojad_results[log[k].seek + i].accent
                          /\ accent[i].length
                               = Len(ojad_results[log[k].seek + i].text)
                     /\ kata2hira(Concat(FragmentTexts(
                                           final_response_results[Emitted(k)])))
                        = kata2hira(Concat(
                            [i \in 1 .. Len(accent) |->
                               ojad_results[log[k].seek + i].text]))

\* a token aligned after the seek skipped an accent token and stopped at a
\* katakana fragment, and a token for which the seek ran to the end
C16_Witness ==
    /\ \E k \in 1 .. Len(log) :
         /\ log[k].outcome = "success"
         /\ log[k].seek > log[k].before
         /\ ojad_results[log[k].seek + 1].text
              # kata2hira(ojad_results[log[k].seek + 1].text)
    /\ \E k \in 1 .. Len(log) :
         /\ log[k].outcome = "error"
         /\ log[k].before < Len(ojad_results)
         /\ log[k].seek = Len(ojad_results)

(***************************************************************************)
(* Two worked examples                                                      *)
(*   20170 26085 KYOU (kanji)   38632 AME (kanji)   23398 26657 GAKKOU      *)
(*   12365 ki  12423 small yo  12358 u  12399 ha  12354 a  12417 me         *)
(*   12391 de  12377 su  12364 ga  12387 small tsu  12371 ko  12290 '。'     *)
(***************************************************************************)
\* the ways to cut a string into non-empty pieces
RECURSIVE Segmentations(_)
Segmentations(s) ==
    IF s = <<>> THEN {<<>>}
    ELSE UNION { { << Slice(s, 0, n) >> \o rest :
                     rest \in Segmentations(Slice(s, n, Len(s))) } :
                 n \in 1 .. Len(s) }

\* the first CSS class of a span (accent_marker.py:239-242)
OjadClasses == {"mola", "accent_plain", "accent_top"}

\* the span lists with the given texts, every span with any class
Marked(texts) ==
    { [k \in 1 .. Len(texts) |-> [text |-> texts[k], class |-> cs[k]]] :
        cs \in [1 .. Len(texts) -> OjadClasses] }

\* the furigana source's words for the example sentence
ExampleSentence ==
    << [surface |-> <<20170, 26085>>, furigana |-> <<12365, 12423, 12358>>],
       [surface |-> <<12399>>],
       [surface |-> <<38632>>, furigana |-> <<12354, 12417>>],
       [surface |-> <<12391, 12377>>],
       [surface |-> <<12290>>] >>

\* the accent source's fragments for the example sentence, one per mora
MoraTexts ==
    << <<12365, 12423>>, <<12358>>, <<12399>>, <<12354>>, <<12417>>, <<12391>>,
       <<12377>> >>

\* the one word of the second example and its reading
ExampleWord == << [surface |-> <<23398, 26657>>,
                   furigana |-> <<12364, 12387, 12371, 12358>>] >>

ExampleReading == <<12364, 12387, 12371, 12358>>

ExampleYahooReplies ==
    { [kind |-> "json", body |-> [type |-> "dict",
                                  result |-> [type |-> "dict", word |-> ws]]] :
        ws \in {ExampleSentence, ExampleWord} }

\* the example sentence's fragments, and every way the accent source can cut
\* the example word or a beginning of it, with any marks
ExampleOjadReplies ==
    { [kind |-> "html", mojis |-> ms] :
        ms \in Marked(MoraTexts)
               \cup UNION { Marked(texts) :
                              texts \in UNION { Segmentations(Slice(ExampleReading, 0, n)) :
                                                 n \in 0 .. Len(ExampleReading) } } }

CallMarkFuriganaExample == CallMarkFuriganaFrom(ExampleYahooReplies)

GetOjadResultReturnsExample == GetOjadResultReturnsFrom(ExampleOjadReplies)

NextExample ==
    \/ CallMarkFuriganaExample
    \/ GetOjadResultReturnsExample
    \/ BypassToken
    \/ MergeAccepted
    \/ MergeRejected
    \/ ReturnResponse

SpecExample == Init /\ [][NextExample]_vars

\* the request is over, the furigana tokens were the example sentence and
\* the accent tokens its seven morae
ExampleSentenceRun ==
    /\ pc = "done"
    /\ yahoo_reply.body.result.word = ExampleSentence
    /\ [k \in 1 .. Len(ojad_results) |-> ojad_results[k].text] = MoraTexts

\* the accent tokens (1-based) each aligned result of the example is made of
ExampleGroups == << <<1, 2>>, <<3>>, <<4, 5>>, <<6, 7>> >>

(***************************************************************************)
(* C15: for the furigana tokens of the example sentence and accent tokens   *)
(* that cover its reading one fragment per mora, the alignment emits 5      *)
(* results in input order: 4 aligned results with the fragments (kyo, u),   *)
(* (ha), (a, me), (de, su) carrying the accent tokens' marks, and a bypass  *)
(* result for the full stop with one fragment with the no-accent mark; no   *)
(* token is dropped.                                                        *)
(***************************************************************************)
C15_EndToEndExample ==
    ExampleSentenceRun
    => /\ response.status = 200
       /\ response.error = None
       /\ Len(response.result) = 5
       /\ \A k \in 1 .. 5 :
            /\ response.result[k].surface = ExampleSentence[k].surface
            /\ log[k].outcome = (IF k = 5 THEN "bypass" ELSE "success")
       /\ \A k \in 1 .. 4 :
            response.result[k].accent =
              [i \in 1 .. Len(ExampleGroups[k]) |->
                 AccentInfo(MoraTexts[ExampleGroups[k][i]],
                            ojad_results[ExampleGroups[k][i]].accent,
                            Len(MoraTexts[ExampleGroups[k][i]]))]
       /\ response.result[5].accent = << AccentInfo(<<12290>>, 0, 1) >>

\* the example has run, with a peak on the first mora and a plain mark on
\* the last
C15_Witness ==
    /\ ExampleSentenceRun
    /\ ojad_results[1].accent = 2
    /\ ojad_results[7].accent = 1
    /\ Len(response.result) = 5

\* the fragments of accent tokens lo + 1 .. hi (1-based), put together
OjadTextBetween(lo, hi) ==
    Concat([i \in 1 .. hi - lo |-> ojad_results[lo + i].text])

(***************************************************************************)
(* C17: from the seek position a contiguous run of accent tokens is         *)
(* consumed, one fragment per token with that token's mark and length, and  *)
(* consumption stops at the first point where the concatenated fragments    *)
(* are at least as long as the reading or the accent stream is exhausted;   *)
(* the reading gakkou against the fragments ga, small tsu, kou with marks   *)
(* none, none, peak gives exactly 3 fragments of lengths 1, 1, 2 with those *)
(* marks.                                                                   *)
(***************************************************************************)
C17_GreedyConsumption ==
    \A k \in 1 .. Len(log) :
        log[k].outcome # "bypass"
        => LET reading == furigana_results[k].furigana
               seek    == log[k].seek
               stop    == log[k].ojad_idx
           IN  /\ seek <= stop /\ stop <= Len(ojad_results)
               /\ log[k].ojad_furigana = OjadTextBetween(seek, stop)
               /\ Len(log[k].ojad_furigana) >= Len(reading)
                  \/ stop = Len(ojad_results)
               /\ \A j \in seek .. stop - 1 :
                    Len(OjadTextBetween(seek, j)) < Len(reading)
               /\ log[k].outcome = "success"
                  => LET accent == final_response_results[Emitted(k)].accent
                     IN  /\ Len(accent) = stop - seek
                         /\ \A i \in 1 .. Len(accent) :
                              /\ accent[i].accent_marking_type
                                   = ojad_results[seek + i].accent
                              /\ accent[i].length = Len(ojad_results[seek + i].text)
               /\ (/\ reading = ExampleReading
                   /\ ojad_results = << [text |-> <<12364>>, accent |-> 0],
                                         [text |-> <<12387>>, accent |-> 0],
                                         [text |-> <<12371, 12358>>, accent |-> 2] >>)
                  => /\ log[k].outcome = "success"
                     /\ final_response_results[Emitted(k)].accent
                        = << AccentInfo(<<12364>>, 0, 1), AccentInfo(<<12387>>, 0, 1),
                             AccentInfo(<<12371, 12358>>, 2, 2) >>

\* the second example has run
C17_Witness ==
    /\ pc = "done"
    /\ furigana_results[1].furigana = ExampleReading
    /\ ojad_results = << [text |-> <<12364>>, accent |-> 0],
                         [text |-> <<12387>>, accent |-> 0],
                         [text |-> <<12371, 12358>>, accent |-> 2] >>
    /\ log[1].outcome = "success"
    /\ Len(final_response_results[1].accent) = 3

(***************************************************************************)
(* The two sources cut the same kana text differently                       *)
(*   12364 ga  12367 ku  12379 se  12356 i  12391 de  12377 su              *)
(***************************************************************************)
MaxStreamLen == 5

\* ga-ku-se-i-de-su
StudentText == <<12364, 12367, 12379, 12356, 12391, 12377>>

\* the student sentence and the short texts over ka and ki
StreamTexts ==
    {StudentText} \cup (SeqsUpTo({12363, 12365}, MaxStreamLen) \ {<<>>})

\* the furigana source's words for a cutting of a kana text: the reading of
\* a kana word is its surface (furigana_marker.py:176-182)
StreamWords(texts) == [k \in 1 .. Len(texts) |-> [surface |-> texts[k]]]

StreamYahooReplies ==
    { [kind |-> "json", body |-> [type |-> "dict",
                                  result |-> [type |-> "dict",
                                              word |-> StreamWords(texts)]]] :
        texts \in UNION { Segmentations(t) : t \in StreamTexts } }

\* the accent source's spans for a cutting of the text
StreamMojis(texts) == [k \in 1 .. Len(texts) |-> [text |-> texts[k], class |-> "mola"]]

\* the readings of the furigana tokens, put together
ReadingText == Concat([k \in 1 .. Len(furigana_results) |-> furigana_results[k].furigana])

CallMarkFuriganaStreams == CallMarkFuriganaFrom(StreamYahooReplies)

\* the accent source answers with some cutting of the text the furigana
\* source has cut
GetOjadResultReturnsStreams ==
    GetOjadResultReturnsFrom({ [kind |-> "html", mojis |-> StreamMojis(texts)] :
                                 texts \in Segmentations(ReadingText) })

NextStreams ==
    \/ CallMarkFuriganaStreams
    \/ GetOjadResultReturnsStreams
    \/ MergeAccepted
    \/ MergeRejected
    \/ ReturnResponse

SpecStreams == Init /\ [][NextStreams]_vars

\* the consumption for the k-th token ran past the end of its reading
Overshoot(k) ==
    /\ log[k].outcome # "bypass"
    /\ Len(log[k].ojad_furigana) > Len(furigana_results[k].furigana)

\* an overshooting merge is rejected and leaves the cursor where it was
OvershootRejected ==
    \A k \in 1 .. Len(log) :
        Overshoot(k) => /\ log[k].outcome = "error"
                        /\ log[k].emitted = 0
                        /\ log[k].after = log[k].before

\* where the reading of the k-th token starts in the text (0-based)
ReadingStart(k) ==
    Len(Concat([i \in 1 .. k - 1 |-> furigana_results[i].furigana]))

\* the reading of the k-th token starts where accent token b + 1 starts
StartsAtBoundary(k, b) ==
    /\ b \in 0 .. Len(ojad_results) - 1
    /\ Len(OjadTextBetween(0, b)) = ReadingStart(k)

\* a run of accent tokens that starts with token b + 1 spells the reading
\* of the k-th token
SpelledFrom(k, b) ==
    \E e \in b + 1 .. Len(ojad_results) :
        kata2hira(OjadTextBetween(b, e)) = kata2hira(furigana_results[k].furigana)

\* the run on the student sentence: readings gaku, sei, desu against the
\* fragments ga, kuse, i, de, su
StudentRun ==
    /\ pc = "done"
    /\ [k \in 1 .. Len(furigana_results) |-> furigana_results[k].furigana]
         = << <<12364, 12367>>, <<12379, 12356>>, <<12391, 12377>> >>
    /\ [k \in 1 .. Len(ojad_results) |-> ojad_results[k].text]
         = << <<12364>>, <<12367, 12379>>, <<12356>>, <<12391>>, <<12377>> >>

\* on the student sentence the first two tokens are dropped and desu is
\* aligned to (de, su)
StudentRunResyncs ==
    StudentRun
    => /\ [k \in 1 .. 3 |-> log[k].outcome] = << "error", "error", "success" >>
       /\ Len(final_response_results) = 1
       /\ FragmentTexts(final_response_results[1]) = << <<12391>>, <<12377>> >>

(***************************************************************************)
(* C18, as stated: when the consumption for a token runs into a fragment    *)
(* that extends into the next reading, its merge is rejected, no accent     *)
(* token it touched is consumed, and a later token whose reading starts at  *)
(* an accent-fragment boundary is still aligned by the prefix seek from the *)
(* unchanged cursor.                                                        *)
(***************************************************************************)
C18_LaterTokenStillAligned ==
    /\ OvershootRejected
    /\ StudentRunResyncs
    /\ \A i \in 1 .. Len(log) : \A j \in i + 1 .. Len(log) :
         (/\ Overshoot(i)
          /\ log[j].outcome # "bypass"
          /\ \E b \in 0 .. Len(ojad_results) - 1 : StartsAtBoundary(j, b))
         => log[j].outcome = "success"

(***************************************************************************)
(* C18, amended: an overshooting merge is rejected and consumes nothing;    *)
(* the merge of a later token passes validation when a run of accent tokens *)
(* starting at some index b at or after the current cursor spells its       *)
(* reading and no accent token between the cursor and b has a fragment that *)
(* is a prefix of its reading; on the student sentence the first two tokens *)
(* are dropped and desu is aligned to (de, su).                             *)
(***************************************************************************)
C18_OvershootAndResync ==
    /\ OvershootRejected
    /\ StudentRunResyncs
    /\ \A i \in 1 .. Len(log) : \A j \in i + 1 .. Len(log) :
         (/\ Overshoot(i)
          /\ log[j].outcome # "bypass"
          /\ \E b \in log[j].before .. Len(ojad_results) - 1 :
               /\ SpelledFrom(j, b)
               /\ \A c \in log[j].before .. b - 1 : c \notin PrefixPositions(j))
         => log[j].outcome \in {"success", "raised"}

\* the student sentence has run: the first token overshot, and desu was
\* aligned after its seek skipped the accent tokens before de
C18_Witness ==
    /\ StudentRun
    /\ Overshoot(1)
    /\ log[3].outcome = "success"
    /\ log[3].seek > log[3].before

(***************************************************************************)
(* The alignment run a second time on the same two lists                    *)
(***************************************************************************)
RerunWords == 2
RerunMojis == 2

\* a cursor that outlives the run that moved it
NewCursorKept(previous) == previous

\* accent_marker.py:267: every run of the loop starts with a cursor of its own
NewCursor(previous) == 0

\* accent_marker.py:266
NewResults(previous) == <<>>

CallMarkFuriganaRerun == CallMarkFuriganaFrom(YahooRepliesUpTo(RerunWords))

GetOjadResultReturnsRerun == GetOjadResultReturnsFrom(OjadRepliesUpTo(RerunMojis))

\* the first run is over and what it gave is kept aside
FirstRun ==
    [results |-> final_response_results, cursor |-> ojad_idx_cnt,
     response |-> response, log |-> log]

\* accent_marker.py:266-267: the loop is entered again with the lists
\* furigana_results and ojad_results of the first run
Rerun ==
    /\ pc = "done"
    /\ ojad_reply.kind = "html"
    /\ first = None
    /\ first' = Some(FirstRun)
    /\ final_response_results' = NewResults(final_response_results)
    /\ ojad_idx_cnt' = NewCursor(ojad_idx_cnt)
    /\ pos' = 0
    /\ log' = <<>>
    /\ response' = NoResponse
    /\ pc' = "loop"
    /\ UNCHANGED << yahoo_reply, ojad_reply, furigana_response, furigana_results,
                    ojad_results, request_text, query_text, upstream, reqs,
                    http_client, steps, usage >>

NextRerun ==
    \/ CallMarkFuriganaRerun
    \/ GetOjadResultReturnsRerun
    \/ BypassToken
    \/ MergeAccepted
    \/ MergeAcceptedRaises
    \/ MergeRejected
    \/ ReturnResponse
    \/ Rerun

SpecRerun == Init /\ [][NextRerun]_vars

RECURSIVE AlignLoop(_, _, _, _, _)
AlignLoop(tokens, ojad, at, cursor, results) ==
    IF at = Len(tokens)
    THEN [response |-> AccentResponse(200, results, None),
          final_response_results |-> results, ojad_idx_cnt |-> cursor]
    ELSE LET token == tokens[at + 1]
             m     == Merge(token, ojad, cursor)
             valid == MergeValid(m.ojad_furigana, token.furigana)
             accent_info_list == BuildAccentInfoList(token.furigana, m.accents, 1, 0)
         IN  IF IsBypass(token)
             THEN AlignLoop(tokens, ojad, at + 1, cursor,
                            Append(results, BypassResult(token)))
             ELSE IF ~valid
             THEN AlignLoop(tokens, ojad, at + 1,
                            CursorAfterMerge(FALSE, cursor, m.ojad_idx), results)
             ELSE IF "subword" \notin DOMAIN token
             THEN AlignLoop(tokens, ojad, at + 1,
                            CursorAfterMerge(TRUE, cursor, m.ojad_idx),
                            Append(results,
                                   SingleWordAccentResultObject(
                                       token.furigana, token.surface, accent_info_list)))
             ELSE IF SubwordObjects(token.subword) = None
             THEN [response |-> ExceptResponse([kind |-> "ValidationError"]),
                   final_response_results |-> results,
                   ojad_idx_cnt |-> CursorAfterMerge(TRUE, cursor, m.ojad_idx)]
             ELSE AlignLoop(tokens, ojad, at + 1,
                            CursorAfterMerge(TRUE, cursor, m.ojad_idx),
                            Append(results,
                                   MultiWordAccentResultObject(
                                       token.furigana, token.surface, accent_info_list,
                                       SubwordObjects(token.subword)[1])))

\* accent_marker.py:259-419: what follows the answer of the accent source
AfterOjad(furigana, reply) ==
    IF reply.kind = "html"
    THEN AlignLoop(furigana, get_ojad_result(reply.mojis), 0, 0, <<>>)
    ELSE [response |-> ExceptResponse(reply), final_response_results |-> <<>>,
          ojad_idx_cnt |-> 0]

\* the response of a request that runs alone and gets these two answers
SoloResponse(yahoo, ojad) == AfterOjad(mark_furigana(yahoo).result, ojad).response

\* locals kept in one place for all requests
LocalsShared(rs, r) == rs[1]

\* the locals of request r: every call of the coroutine has its own frame
Locals(rs, r) == rs[r]

\* answers of the furigana source: a timeout, a word and a full stop, a
\* word with sub-words, a kana word
PairYahooReplies ==
    { [kind |-> "TimeoutError"] }
    \cup { [kind |-> "json", body |-> [type |-> "dict",
                                       result |-> [type |-> "dict", word |-> ws]]] :
             ws \in { << [surface |-> <<20170>>, furigana |-> <<12363>>],
                         [surface |-> <<12290>>] >>,
                      << [surface |-> <<20170, 12365>>, furigana |-> <<12363, 12365>>,
                          subword |-> << [surface |-> <<20170>>, furigana |-> <<12363>>],
                                         [surface |-> <<12365>>, furigana |-> <<12365>>] >>] >>,
                      << [surface |-> <<12365>>] >> } }

\* answers of the accent source: a connection error and three span lists
PairOjadReplies ==
    { [kind |-> "ConnectError"] }
    \cup { [kind |-> "html", mojis |-> ms] :
             ms \in { << [text |-> <<12363>>, class |-> "mola"] >>,
                      << [text |-> <<12363, 12461>>, class |-> "accent_top"] >>,
                      << [text |-> <<12365>>, class |-> "accent_plain"],
                         [text |-> <<12363>>, class |-> "mola"] >> } }

\* another request than r is suspended at one of its awaits
OtherSuspended(r) ==
    \E o \in Requests \ {r} : reqs[o].pc \in {"furigana", "ojad"}

\* accent_marker.py:254-255, furigana_marker.py:102-103: request r reaches its
\* first await, the post to the furigana source on a session of its own
AwaitFurigana(r) ==
    /\ reqs[r].pc = "start"
    /\ reqs' = [reqs EXCEPT ![r].pc = "furigana"]
    /\ UNCHANGED http_client

\* accent_marker.py:255-259, 214: the furigana source answers request r,
\* which goes on to its second await, the post on the shared client
AwaitOjad(r) ==
    /\ reqs[r].pc = "furigana"
    /\ \E reply \in PairYahooReplies :
         reqs' = [reqs EXCEPT ![r].pc = "ojad",
                              ![r].interleaved = @ \/ OtherSuspended(r),
                              ![r].yahoo_reply = reply,
                              ![r].furigana_results = mark_furigana(reply).result]
    /\ http_client' = http_client + 1

\* accent_marker.py:214-419: the accent source answers request r, which runs
\* to its end
Respond(r) ==
    /\ reqs[r].pc = "ojad"
    /\ \E reply \in PairOjadReplies :
         LET after == AfterOjad(Locals(reqs, r).furigana_results, reply)
         IN  reqs' = [reqs EXCEPT
                        ![r].pc = "done",
                        ![r].interleaved = @ \/ OtherSuspended(r),
                        ![r].ojad_reply = reply,
                        ![r].ojad_results =
                            IF reply.kind = "html" THEN get_ojad_result(reply.mojis)
                            ELSE <<>>,
                        ![r].final_response_results = after.final_response_results,
                        ![r].ojad_idx_cnt = after.ojad_idx_cnt,
                        ![r].response = after.response]
    /\ http_client' = http_client - 1

\* the variables of the single request stay as they are
single_vars ==
    << pc, yahoo_reply, ojad_reply, furigana_response, furigana_results,
       ojad_results, final_response_results, ojad_idx_cnt, pos, log, response,
       request_text, query_text, upstream, first, steps, usage >>

NextPair ==
    \/ \E r \in Requests : AwaitFurigana(r) /\ UNCHANGED single_vars
    \/ \E r \in Requests : AwaitOjad(r) /\ UNCHANGED single_vars
    \/ \E r \in Requests : Respond(r) /\ UNCHANGED single_vars

SpecPair == Init /\ [][NextPair]_vars

\* every finished request has the response, the result list and the cursor
\* it would have alone with the answers it got
SameAsAlone ==
    \A r \in Requests :
        reqs[r].pc = "done"
        => /\ reqs[r].response = SoloResponse(reqs[r].yahoo_reply, reqs[r].ojad_reply)
           /\ reqs[r].final_response_results
               = AfterOjad(mark_furigana(reqs[r].yahoo_reply).result,
                           reqs[r].ojad_reply).final_response_results
           /\ reqs[r].ojad_idx_cnt
               = AfterOjad(mark_furigana(reqs[r].yahoo_reply).result,
                           reqs[r].ojad_reply).ojad_idx_cnt

\* a step of one request leaves the locals of the other as they are
OthersUntouched ==
    \A r \in Requests :
        reqs'[r] # reqs[r] => \A o \in Requests \ {r} : reqs'[o] = reqs[o]

(***************************************************************************)
(* C13: for any interleaving of two concurrent requests at their await      *)
(* points (the furigana fetch and the accent fetch), the response of each   *)
(* is the one it would give alone with the same upstream answers, and the   *)
(* cursor and result list of one are not read or written by the other.      *)
(***************************************************************************)
C13_RequestsIndependent == []SameAsAlone /\ [][OthersUntouched]_vars

\* both requests are over, each was resumed while the other was suspended,
\* and they aligned different tokens
C13_Witness ==
    /\ \A r \in Requests :
         /\ reqs[r].pc = "done"
         /\ reqs[r].interleaved
         /\ reqs[r].response.status = 200
         /\ reqs[r].ojad_idx_cnt > 0
    /\ reqs[1].final_response_results # reqs[2].final_response_results

\* the sum of the length fields of the first n fragments
RECURSIVE LengthBefore(_, _)
LengthBefore(accent, n) ==
    IF n = 0 THEN 0 ELSE LengthBefore(accent, n - 1) + accent[n].length

(***************************************************************************)
(* C21: in every aligned (non-bypass) result the accent fragments partition *)
(* the reading: the fragment texts are consecutive, non-overlapping slices  *)
(* of the furigana source's reading, in order and in the reading's script;  *)
(* the length field of each fragment is the length of its text; the lengths *)
(* add up to the length of the reading.                                     *)
(***************************************************************************)
C21_FragmentsPartitionReading ==
    \A k \in 1 .. Len(log) :
        log[k].outcome = "success"
        => LET r == final_response_results[Emitted(k)]
           IN  /\ r.furigana = furigana_results[k].furigana
               /\ \A i \in 1 .. Len(r.accent) :
                    /\ r.accent[i].length = Len(r.accent[i].furigana)
                    /\ r.accent[i].furigana
                       = Slice(r.furigana, LengthBefore(r.accent, i - 1),
                               LengthBefore(r.accent, i))
               /\ LengthBefore(r.accent, Len(r.accent)) = Len(r.furigana)
               /\ Concat(FragmentTexts(r)) = r.furigana

\* an aligned result of two fragments whose accent tokens spell the reading
\* in the other script
C21_Witness ==
    \E k \in 1 .. Len(log) :
        /\ log[k].outcome = "success"
        /\ Len(final_response_results[Emitted(k)].accent) >= 2
        /\ kata2hira(log[k].ojad_furigana) # log[k].ojad_furigana
        /\ Concat(FragmentTexts(final_response_results[Emitted(k)]))
             # log[k].ojad_furigana

\* the lengths at which the pieces of a list of strings end
Boundaries(texts) ==
    { Len(Concat(SubSeq(texts, 1, n))) : n \in 0 .. Len(texts) }

\* the readings of the furigana tokens and the fragments of the accent tokens
Readings == [k \in 1 .. Len(furigana_results) |-> furigana_results[k].furigana]

OjadTexts == [k \in 1 .. Len(ojad_results) |-> ojad_results[k].text]

\* the two sources cut the same text, no token is a bypass token, and every
\* furigana-token boundary is an accent-fragment boundary
AlignedStreams ==
    /\ ojad_reply.kind = "html"
    /\ Len(furigana_results) > 0
    /\ \A k \in 1 .. Len(furigana_results) : ~IsBypass(furigana_results[k])
    /\ kata2hira(Concat(OjadTexts)) = kata2hira(Concat(Readings))
    /\ Boundaries(Readings) \subseteq Boundaries(OjadTexts)

(***************************************************************************)
(* C22: for furigana tokens without bypass tokens and accent tokens whose   *)
(* fragments, put together, equal the readings put together (after          *)
(* katakana/hiragana normalization), with every furigana-token boundary at  *)
(* an accent-fragment boundary, no token is dropped: the result list has    *)
(* one aligned result per furigana token and the final cursor is the number *)
(* of accent tokens.                                                        *)
(***************************************************************************)
C22_CompleteOnAlignedStreams ==
    (pc = "done" /\ AlignedStreams)
    => /\ Len(response.result) = Len(furigana_results)
       /\ \A k \in 1 .. Len(furigana_results) :
            /\ response.result[k].surface = furigana_results[k].surface
            /\ response.result[k].furigana = furigana_results[k].furigana
       /\ ojad_idx_cnt = Len(ojad_results)

(***************************************************************************)
(* The two while loops of a token, one iteration at a time                  *)
(***************************************************************************)
StepsWords == 2
StepsMojis == 2

\* every variable but steps
not_steps ==
    << pc, yahoo_reply, ojad_reply, furigana_response, furigana_results,
       ojad_results, final_response_results, ojad_idx_cnt, pos, log, response,
       request_text, query_text, upstream, first, reqs, http_client, usage >>

\* the while loops of the token the for loop is at are under way
InToken == InLoop /\ steps.token = pos + 1

\* accent_marker.py:305-307: the condition of the first while loop
SeekCondition ==
    /\ steps.ojad_idx < Len(ojad_results)
    /\ ~StartsWith(kata2hira(NextToken.furigana),
                   kata2hira(ojad_results[steps.ojad_idx + 1].text))

\* accent_marker.py:311-313: the condition of the second while loop
ConsumeCondition ==
    /\ Len(steps.ojad_furigana) < Len(NextToken.furigana)
    /\ steps.ojad_idx < Len(ojad_results)

\* accent_marker.py:268-304: the for loop takes a token that is not bypassed
BeginSeek ==
    /\ InLoop
    /\ ~IsBypass(NextToken)
    /\ steps.token # pos + 1
    /\ steps' = [token |-> pos + 1, phase |-> "seek",
                 ojad_idx |-> SeekStart(ojad_idx_cnt), ojad_furigana |-> <<>>,
                 accents |-> <<>>, advances |-> 0]
    /\ UNCHANGED not_steps

\* accent_marker.py:308
SeekAdvance ==
    /\ InToken
    /\ steps.phase = "seek"
    /\ SeekCondition
    /\ steps' = [steps EXCEPT !.ojad_idx = @ + 1, !.advances = @ + 1]
    /\ UNCHANGED not_steps

\* accent_marker.py:305-310: the first while loop is left
SeekEnds ==
    /\ InToken
    /\ steps.phase = "seek"
    /\ ~SeekCondition
    /\ steps' = [steps EXCEPT !.phase = "consume", !.ojad_furigana = <<>>]
    /\ UNCHANGED not_steps

\* accent_marker.py:314-325
ConsumeAdvance ==
    /\ InToken
    /\ steps.phase = "consume"
    /\ ConsumeCondition
    /\ LET ojad_text == ojad_results[steps.ojad_idx + 1].text
       IN  steps' = [steps EXCEPT
                       !.ojad_furigana = @ \o ojad_text,
                       !.accents = Append(@, AccentInfo(
                                                ojad_text,
                                                ojad_results[steps.ojad_idx + 1].accent,
                                                Len(ojad_text))),
                       !.ojad_idx = @ + 1,
                       !.advances = @ + 1]
    /\ UNCHANGED not_steps

\* the second while loop is left
LoopsOver ==
    /\ InToken
    /\ steps.phase = "consume"
    /\ ~ConsumeCondition

\* accent_marker.py:327-379: what follows the two loops
FinishAccepted == LoopsOver /\ MergeAccepted

FinishAcceptedRaises == LoopsOver /\ MergeAcceptedRaises

FinishRejected == LoopsOver /\ MergeRejected

CallMarkFuriganaSteps == CallMarkFuriganaFrom(YahooRepliesUpTo(StepsWords))

GetOjadResultReturnsSteps == GetOjadResultReturnsFrom(OjadRepliesUpTo(StepsMojis))

GetOjadResultRaisesSteps == GetOjadResultRaisesFrom(OjadRepliesUpTo(StepsMojis))

NextSteps ==
    \/ CallMarkFuriganaSteps
    \/ GetOjadResultReturnsSteps
    \/ GetOjadResultRaisesSteps
    \/ BypassToken
    \/ BeginSeek
    \/ SeekAdvance
    \/ SeekEnds
    \/ ConsumeAdvance
    \/ FinishAccepted
    \/ FinishAcceptedRaises
    \/ FinishRejected
    \/ ReturnResponse

\* the event loop keeps running the coroutine, and both fetches end (with
\* an answer or with one of their errors)
SpecSteps == Init /\ [][NextSteps]_vars /\ WF_vars(NextSteps)

\* the loops taken one iteration at a time end where the two loops taken
\* as a whole end
StepsAgreeWithMerge ==
    LoopsOver
    => LET m == Merge(NextToken, ojad_results, ojad_idx_cnt)
       IN  /\ steps.ojad_idx = m.ojad_idx
           /\ steps.ojad_furigana = m.ojad_furigana
           /\ steps.accents = m.accents

\* within one token the two while loops have advanced the local index at
\* most len(ojad_results) times
AdvanceBound == steps.advances <= Len(ojad_results)

\* no token is visited twice: the for loop has logged one visit for each
\* token it has passed
VisitedAtMostOnce == Len(log) = pos /\ pos <= Len(furigana_results)

\* when the loop is over every token has been visited
VisitedExactlyOnce ==
    /\ VisitedAtMostOnce
    /\ (pc = "done" /\ ojad_reply.kind = "html") => Len(log) = Len(furigana_results)

\* the request comes to its end
Terminates == <>(pc = "done")

(***************************************************************************)
(* C23: the alignment loop terminates for every finite furigana-token list  *)
(* and accent-token list: each furigana token is visited exactly once, and  *)
(* within one token the seek and consume loops together advance the local   *)
(* accent index at most len(accent tokens) times.                           *)
(***************************************************************************)
C23_LoopTerminates ==
    /\ Terminates
    /\ [](AdvanceBound /\ VisitedExactlyOnce)

(***************************************************************************)
(* usage_query.py: get_id_details                                           *)
(***************************************************************************)
\* usage_query.py:12-15
SITE == {"NLB", "NLT"}

\* usage_query.py:419-455: the parts in the order they are fetched, and the
\* target each fetch_data call is given
IdParts ==
    << [name |-> "base", target |-> ""],
       [name |-> "subcorpus", target |-> "subcorpus"],
       [name |-> "shojikei", target |-> "shojikei"],
       [name |-> "subcorpus_shojikei", target |-> "subcorpus"],
       [name |-> "katuyokei", target |-> "katuyokei"],
       [name |-> "setuzoku", target |-> "setuzoku"],
       [name |-> "patternfreqorder", target |-> "rows"] >>

\* every part is fetched whatever the site
IsFetchedAnySite(site, n) == TRUE

\* usage_query.py:423-446: three parts are [] for site NLT, without a fetch
IsFetched(site, n) ==
    ~(site = "NLT" /\ IdParts[n].name \in {"subcorpus", "subcorpus_shojikei",
                                           "katuyokei"})

\* the next part after the n-th that is fetched, or one past the last part
RECURSIVE NextFetch(_, _)
NextFetch(site, n) ==
    IF n + 1 > Len(IdParts) THEN n + 1
    ELSE IF IsFetched(site, n + 1) THEN n + 1
    ELSE NextFetch(site, n + 1)

\* what client.get / client.post and response.json() can give: an
\* exception, a status other than 200, a body that is not JSON, an array,
\* an object without the target, an object whose target is a list of
\* objects, an object whose target is a string
FetchOutcomes ==
    { [kind |-> "TimeoutException"], [kind |-> "HTTPError"], [kind |-> "invalid"] }
    \cup { [kind |-> "status", status |-> st] : st \in {404, 503} }
    \cup { [kind |-> "json", type |-> "list"] }
    \cup { [kind |-> "json", type |-> "dict", target |-> t] :
             t \in {"absent", "list", "str"} }

\* usage_query.py:137-150
IdResponse(status, result, error) ==
    [status |-> status, result |-> result, error |-> error]

\* usage_query.py:38-44
UsageErrorInfo(code, message) == Some([code |-> code, message |-> message])

\* usage_query.py:339-417: fetch_data returns an IdResponse for a failure
\* and the fetched value (here: its JSON type) otherwise
fetch_data(part, outcome) ==
    CASE outcome.kind = "TimeoutException" ->
           [failed |-> TRUE,
            response |-> IdResponse(504, None,
                                    UsageErrorInfo(504, "Connection timed out"))]
      [] outcome.kind = "HTTPError" ->
           [failed |-> TRUE,
            response |-> IdResponse(500, None, UsageErrorInfo(500, "Request error"))]
      [] outcome.kind = "status" ->
           [failed |-> TRUE,
            response |-> IdResponse(outcome.status, None,
                                    UsageErrorInfo(outcome.status,
                                                   << "HTTP error", part.name >>))]
      [] outcome.kind = "invalid" ->
           [failed |-> TRUE,
            response |-> IdResponse(500, None,
                                    UsageErrorInfo(500, << "Error parsing JSON",
                                                           part.name >>))]
      [] outcome.kind = "json" ->
           IF part.target = "" THEN [failed |-> FALSE, value |-> outcome.type]
           ELSE IF outcome.type = "list"
           THEN [failed |-> TRUE,
                 response |-> IdResponse(500, None,
                                         UsageErrorInfo(500, << "Error parsing JSON",
                                                                part.name >>))]
           ELSE IF outcome.target = "absent"
           THEN [failed |-> FALSE, value |-> "dict"]
           ELSE [failed |-> FALSE, value |-> outcome.target]

\* usage_query.py:65-104, 462-473: IdDetails takes a dict for base and lists
\* for the other parts
IdDetailsValid(values) ==
    /\ values[1] = "dict"
    /\ \A n \in 2 .. Len(IdParts) : values[n] \in {"list", "empty"}

\* the values after the n-th part was fetched: the parts up to the next
\* fetch are empty lists
ValuesAfter(values, site, n, value) ==
    [k \in 1 .. Len(IdParts) |->
       IF k = n THEN value
       ELSE IF k > n /\ k < NextFetch(site, n) THEN "empty"
       ELSE values[k]]

\* every variable but usage
not_usage ==
    << pc, yahoo_reply, ojad_reply, furigana_response, furigana_results,
       ojad_results, final_response_results, ojad_idx_cnt, pos, log, response,
       request_text, query_text, upstream, first, reqs, http_client, steps >>

\* usage_query.py:332-420: a request arrives and awaits the fetch of base
GetIdDetails ==
    /\ usage = NoUsage
    /\ \E site \in SITE :
         usage' = [op |-> "id_details", site |-> site, pc |-> "fetching", at |-> 1,
                   values |-> [k \in 1 .. Len(IdParts) |-> "unset"],
                   issued |-> <<>>, outcomes |-> <<>>,
                   response |-> IdResponse(0, None, None)]
    /\ UNCHANGED not_usage

\* usage_query.py:419-470: the awaited fetch ends; on a failure its
\* IdResponse is returned, otherwise the next fetch is awaited or, after the
\* last one, the IdDetails are built and returned
FetchData ==
    /\ usage.op = "id_details"
    /\ usage.pc = "fetching"
    /\ \E outcome \in FetchOutcomes :
         LET part   == IdParts[usage.at]
             ret    == fetch_data(part, outcome)
             next   == NextFetch(usage.site, usage.at)
             called == [usage EXCEPT !.issued = Append(@, part.name),
                                     !.outcomes = Append(@, outcome)]
         IN  usage' =
               IF ret.failed
               THEN [called EXCEPT !.pc = "done", !.response = ret.response]
               ELSE LET values == ValuesAfter(usage.values, usage.site, usage.at,
                                              ret.value)
                    IN  IF next <= Len(IdParts)
                        THEN [called EXCEPT !.at = next, !.values = values]
                        ELSE IF IdDetailsValid(values)
                        THEN [called EXCEPT !.pc = "done", !.values = values,
                                            !.response = IdResponse(200, Some(values),
                                                                    None)]
                        ELSE [called EXCEPT !.pc = "raised", !.values = values]
    /\ UNCHANGED not_usage

NextIdDetails == GetIdDetails \/ FetchData

SpecIdDetails == Init /\ [][NextIdDetails]_vars

\* the names of the parts a request for the site fetches, in order
ExpectedOrder(site) ==
    IF site = "NLT"
    THEN << "base", "shojikei", "setuzoku", "patternfreqorder" >>
    ELSE << "base", "subcorpus", "shojikei", "subcorpus_shojikei", "katuyokei",
            "setuzoku", "patternfreqorder" >>

\* the part of that name
PartNamed(name) == CHOOSE part \in {IdParts[n] : n \in 1 .. Len(IdParts)} : part.name = name

\* the k-th fetch of the request failed
FetchFailed(k) == fetch_data(PartNamed(usage.issued[k]), usage.outcomes[k]).failed

\* the status of the error of a failed fetch
FailedFetchStatus(outcome) ==
    CASE outcome.kind = "TimeoutException" -> 504
      [] outcome.kind = "status" -> outcome.status
      [] OTHER -> 500

(***************************************************************************)
(* C24: get_id_details fetches its parts in the order base, subcorpus,      *)
(* shojikei, subcorpus_shojikei, katuyokei, setuzoku, patternfreqorder and  *)
(* short-circuits: as soon as a fetch fails (timeout 504, request error     *)
(* 500, non-200 status, unparsable JSON 500) the response is that fetch's   *)
(* error with result None and no later fetch is issued; for site NLT the    *)
(* subcorpus, subcorpus_shojikei and katuyokei fetches are never issued and *)
(* those fields are empty lists; status 200 is returned only if every       *)
(* issued fetch succeeded.                                                  *)
(***************************************************************************)
C24_OrderedShortCircuit ==
    usage.op = "id_details"
    => /\ Len(usage.issued) <= Len(ExpectedOrder(usage.site))
       /\ usage.issued = SubSeq(ExpectedOrder(usage.site), 1, Len(usage.issued))
       /\ Len(usage.outcomes) = Len(usage.issued)
       /\ \A k \in 1 .. Len(usage.issued) :
            FetchFailed(k)
            => /\ k = Len(usage.issued)
               /\ usage.pc = "done"
               /\ usage.response.status = FailedFetchStatus(usage.outcomes[k])
               /\ usage.response.result = None
               /\ usage.response.error # None
               /\ usage.response.error[1].code = usage.response.status
       /\ (usage.pc = "done" /\ usage.response.status # 200)
          => /\ Len(usage.issued) > 0
             /\ FetchFailed(Len(usage.issued))
       /\ usage.response.status = 200
          => /\ usage.pc = "done"
             /\ usage.issued = ExpectedOrder(usage.site)
             /\ \A k \in 1 .. Len(usage.issued) : ~FetchFailed(k)
             /\ usage.site = "NLT"
                => \A n \in {2, 4, 5} : usage.response.result[1][n] = "empty"
       /\ usage.pc # "done" => usage.response.status = 0

\* a request for site NLT whose third fetch, setuzoku, timed out
C24_Witness ==
    /\ usage.op = "id_details"
    /\ usage.site = "NLT"
    /\ usage.pc = "done"
    /\ usage.issued = << "base", "shojikei", "setuzoku" >>
    /\ usage.response.status = 504

(***************************************************************************)
(* usage_query.py: get_headwords and get_urls                               *)
(***************************************************************************)

\* the longest request word and the most rows of an upstream answer
MaxWordLen == 2
MaxRows == 2

\* hiragana a, katakana a, latin a, a kanji
WordChars == {12354, 12450, 97, 20170}

Words == SeqsUpTo(WordChars, MaxWordLen)

\* usage_query.py:155-168
text_type(text) ==
    IF text = <<>> THEN "None"
    ELSE IF \A i \in 1 .. Len(text) : text[i] \in 12352 .. 12543 THEN "yomi"
    ELSE IF \A i \in 1 .. Len(text) : text[i] \in (65 .. 90) \cup (97 .. 122)
    THEN "romaji"
    ELSE "headword"

\* jaconv.hira2kata: the hiragana from small a to n become katakana
hira2kata(text) ==
    [i \in 1 .. Len(text) |->
        IF text[i] \in 12353 .. 12435 THEN text[i] + 96 ELSE text[i]]

\* usage_query.py:187-201: the match statement binds rules in its three
\* cases and has no case for None
RulesBound(word) == text_type(word) \in {"yomi", "romaji", "headword"}

\* usage_query.py:187-201
rules(word) ==
    CASE text_type(word) = "yomi" ->
           << [field |-> "yomi1", op |-> "eq", data |-> hira2kata(word)],
              [field |-> "yomi2", op |-> "ew", data |-> hira2kata(word)],
              [field |-> "yomi3", op |-> "ew", data |-> hira2kata(word)] >>
      [] text_type(word) = "romaji" ->
           << [field |-> "romaji1", op |-> "eq", data |-> word],
              [field |-> "romaji2", op |-> "ew", data |-> word],
              [field |-> "romaji3", op |-> "ew", data |-> word] >>
      [] OTHER -> << [field |-> "headword", op |-> "eq", data |-> word] >>

\* JSON values of a row
JNone == [type |-> "none"]
JInt(n) == [type |-> "int", int |-> n]
JStr(s) == [type |-> "str", str |-> s]

\* the truth value python gives a JSON value
Truthy(v) ==
    CASE v.type = "none" -> FALSE
      [] v.type = "int" -> v.int # 0
      [] v.type = "str" -> v.str # ""

\* rows of an upstream answer: two whole ones, one without a frequency, one
\* whose id is not a number
Row(id, headword_id, headword, freq) ==
    [id |-> id, headword_id |-> JStr(headword_id), headword |-> JStr(headword),
     yomi_display |-> JStr("yomi"), romaji_display |-> JStr("romaji"),
     freq |-> freq]

RowPool ==
    { Row(JInt(1), "V.00001", "kaku", JInt(10)),
      Row(JInt(2), "N.00002", "kaki", JInt(3)),
      Row(JInt(3), "N.00003", "kagi", JNone),
      Row(JStr("x"), "N.00004", "kake", JInt(1)) }

\* what the upstream can do with the request of get_headwords
HeadwordOutcomes ==
    { [kind |-> "TimeoutException"], [kind |-> "HTTPError"], [kind |-> "invalid"] }
    \cup { [kind |-> "status", status |-> st] : st \in {404, 503} }
    \cup { [kind |-> "json", type |-> "list"] }
    \cup { [kind |-> "json", type |-> "dict", rows |-> r] :
             r \in {JNone, JInt(5)} }
    \cup { [kind |-> "json", type |-> "dict",
            rows |-> [type |-> "list", value |-> rows]] :
             rows \in SeqsUpTo(RowPool, MaxRows) }

\* usage_query.py:107-119
HeadWordResponse(status, result, error) ==
    [status |-> status, result |-> result, error |-> error]

\* usage_query.py:122-134
URLResponse(status, result, error) ==
    [status |-> status, result |-> result, error |-> error]

\* usage_query.py:243-250: the row has every field
RowComplete(row) ==
    /\ Truthy(row.id)
    /\ Truthy(row.headword_id)
    /\ Truthy(row.headword)
    /\ Truthy(row.yomi_display)
    /\ Truthy(row.romaji_display)
    /\ Truthy(row.freq)

\* usage_query.py:47-55: HeadWord takes numbers for id and freq and strings
\* for the rest
HeadWordValid(row) ==
    /\ row.id.type = "int"
    /\ row.headword_id.type = "str"
    /\ row.headword.type = "str"
    /\ row.yomi_display.type = "str"
    /\ row.romaji_display.type = "str"
    /\ row.freq.type = "int"

\* usage_query.py:251-258, dumped
HeadWord(row) ==
    [id |-> row.id.int, headword_id |-> row.headword_id.str,
     headword |-> row.headword.str, yomi_display |-> row.yomi_display.str,
     romaji_display |-> row.romaji_display.str, freq |-> row.freq.int]

\* usage_query.py:236-261: the headwords of the rows that have every field
RECURSIVE HeadWords(_)
HeadWords(rows) ==
    IF rows = <<>> THEN <<>>
    ELSE IF RowComplete(Head(rows)) THEN << HeadWord(Head(rows)) >> \o HeadWords(Tail(rows))
    ELSE HeadWords(Tail(rows))

\* a call that ended with an exception, and one that returned
Raised(error) == [raised |-> TRUE, error |-> error]
Returned(ret) == [raised |-> FALSE, response |-> ret]

\* usage_query.py:174-287
get_headwords(word, site, outcome) ==
    IF ~RulesBound(word) THEN Raised("UnboundLocalError")
    ELSE
    CASE outcome.kind = "TimeoutException" ->
           Returned(HeadWordResponse(504, None,
                                     UsageErrorInfo(504, "Connection timed out")))
      [] outcome.kind = "HTTPError" ->
           Returned(HeadWordResponse(500, None, UsageErrorInfo(500, "Request error")))
      [] outcome.kind = "status" ->
           Returned(HeadWordResponse(outcome.status, None,
                                     UsageErrorInfo(outcome.status, "HTTP error")))
      [] outcome.kind = "invalid" ->
           Returned(HeadWordResponse(500, None,
                                     UsageErrorInfo(500, "Error parsing JSON")))
      [] outcome.kind = "json" ->
           IF outcome.type = "list" \/ outcome.rows.type = "int"
           THEN Returned(HeadWordResponse(500, None,
                                          UsageErrorInfo(500, "Error parsing JSON")))
           ELSE IF outcome.rows.type = "none" \/ outcome.rows.value = <<>>
           THEN Returned(HeadWordResponse(404, None,
                              UsageErrorInfo(404, "No results found for the given word")))
           ELSE IF \E i \in 1 .. Len(outcome.rows.value) :
                      /\ RowComplete(outcome.rows.value[i])
                      /\ ~HeadWordValid(outcome.rows.value[i])
           THEN Returned(HeadWordResponse(500, None,
                                          UsageErrorInfo(500, "Error parsing JSON")))
           ELSE Returned(HeadWordResponse(200, Some(HeadWords(outcome.rows.value)),
                                          None))

\* usage_query.py:313-320
URL(site, res) == [word |-> res.headword, url |-> << site, "headword", res.headword_id >>]

\* usage_query.py:291-322
get_urls(word, site, outcome) ==
    LET called == get_headwords(word, site, outcome)
    IN  IF called.raised THEN called
        ELSE IF called.response.status # 200
        THEN Returned(URLResponse(called.response.status, None,
                                  called.response.error))
        ELSE Returned(URLResponse(200,
                        Some([i \in 1 .. Len(called.response.result[1]) |->
                                 URL(site, called.response.result[1][i])]),
                        None))

\* no call was made
NoCall == [raised |-> FALSE, response |-> HeadWordResponse(0, None, None)]

\* usage_query.py:174-287: a request for the headwords of a word is served
GetHeadwords ==
    /\ usage = NoUsage
    /\ \E word \in Words, site \in SITE, outcome \in HeadwordOutcomes :
         usage' = [op |-> "headwords", word |-> word, site |-> site,
                   outcome |-> outcome,
                   headwords |-> get_headwords(word, site, outcome),
                   urls |-> NoCall]
    /\ UNCHANGED not_usage

\* usage_query.py:291-322: a request for the URLs of a word is served
GetUrls ==
    /\ usage = NoUsage
    /\ \E word \in Words, site \in SITE, outcome \in HeadwordOutcomes :
         usage' = [op |-> "urls", word |-> word, site |-> site,
                   outcome |-> outcome,
                   headwords |-> get_headwords(word, site, outcome),
                   urls |-> get_urls(word, site, outcome)]
    /\ UNCHANGED not_usage

NextHeadwords == GetHeadwords \/ GetUrls

SpecHeadwords == Init /\ [][NextHeadwords]_vars

\* the response has a status, a result and an error: status 200 with a
\* result list, or another status with no result and an error
WellFormed(ret) ==
    /\ DOMAIN ret = {"status", "result", "error"}
    /\ \/ ret.status = 200 /\ ret.result # None
       \/ ret.status # 200 /\ ret.result = None /\ ret.error # None

\* get_headwords returned a well-formed response
HeadwordsReturns ==
    usage.op \in {"headwords", "urls"}
    => /\ ~usage.headwords.raised
       /\ WellFormed(usage.headwords.response)

\* get_urls hands on what get_headwords returned
UrlsFollowHeadwords ==
    (usage.op = "urls" /\ ~usage.headwords.raised)
    => /\ ~usage.urls.raised
       /\ usage.urls.response.status = usage.headwords.response.status
       /\ usage.headwords.response.status # 200
          => /\ usage.urls.response.error = usage.headwords.response.error
             /\ usage.urls.response.result = None
       /\ usage.headwords.response.status = 200
          => LET heads == usage.headwords.response.result[1]
                 urls  == usage.urls.response.result[1]
             IN  /\ Len(urls) = Len(heads)
                 /\ \A i \in 1 .. Len(heads) :
                      /\ urls[i].word = heads[i].headword
                      /\ urls[i].url[3] = heads[i].headword_id

(***************************************************************************)
(* C25: get_headwords is total over its inputs: for every request word,     *)
(* the empty string included, and every upstream outcome it returns a       *)
(* response with status, result and error (status 200 with a result list,   *)
(* or another status with result None and an error) and never raises;       *)
(* get_urls then returns the same status and error when the status is not   *)
(* 200 and one URL per headword in the same order when it is.               *)
(***************************************************************************)
C25_HeadwordsTotal == HeadwordsReturns /\ UrlsFollowHeadwords

====
